---- MODULE Spec2Model ----
(***************************************************************************)
(* Session / identity / transport coordination and the tool dispatcher of  *)
(* the Airtable MCP gateway (src/src/server/server.ts).                     *)
(*                                                                         *)
(* Time is counted in units of five minutes and measured from the present: *)
(* Date.now() is `now` = 0, and the passing of one unit (Tick) moves every  *)
(* stored instant one unit into the past. The code only ever compares an   *)
(* instant with Date.now(), so an instant that lies further back than any  *)
(* comparison can tell is kept at the furthest instant that matters.       *)
(* The refresh buffer (5 min) is 1, the lifetime of a pending state        *)
(* (10 min) is 2, the lifetime assumed for a header token (1 h) is 12.     *)
(*                                                                         *)
(* Every handler runs to its first network await in one step; the network  *)
(* awaits (token refresh, code exchange, backend call, reading a posted    *)
(* body) are the points where other handlers interleave.                   *)
(***************************************************************************)
EXTENDS Integers, FiniteSets, Sequences, TLC

\* ------------------------------------------------------------------ bounds
MaxStreams == 2
MaxProcs == 1
MaxNonces == 1
MaxRefreshes == 2

\* ------------------------------------------------- program constants
REFRESH_BUFFER == 1
PENDING_TTL == 2
DELEGATED_TTL == 12

\* -------------------------------------------------------------- identifiers
\* crypto.randomBytes(16) session ids and the transport's own random ids
\* are drawn from disjoint ranges; the k-th stream gets a fresh one of each.
SessionIds == 1..MaxStreams
Tid(k) == MaxStreams + k
TransportIds == {Tid(k) : k \in 1..MaxStreams}
Keys == SessionIds \cup TransportIds
Nonces == 1..MaxNonces
\* MaxProcs requests are in flight at once; one more where the specification
\* is about handlers that overlap
ProcIds == 1..(MaxProcs + 1)
SerialProcIds == 1..MaxProcs
ObjIds == 1..(MaxStreams + MaxProcs + 1)

None == "none"
\* Strings that hold tokens are tuples; "" is the empty tuple.
EmptyString == <<>>
Null == <<"null">>
NoHeader == <<"undefined">>
NoObj == [accessToken |-> Null, refreshToken |-> Null, expiresAt |-> 0]
NoPending == [sessionId |-> 0, createdAt |-> 0]
NoCode == <<"null">>

\* ------------------------------------------------------------------ headers
\* An Authorization header is its scheme prefix and the rest of the string.
\* The client of stream k owns two bearer credentials of its own.
ClientCred(k, i) == <<"hdr", k, i>>
Bearer(k, i) == <<"Bearer ", ClientCred(k, i)>>
Basic(k) == <<"Basic ", ClientCred(k, 1)>>
HeadersOf(k) == {Bearer(k, 1), Basic(k)}
StartsWithBearer(h) == h[1] = "Bearer "
Substring7(h) == h[2]

\* ----------------------------------------------------------- token endpoint
\* The endpoint redeems an authorization code once, for the tokens of that
\* grant; the k-th refresh it accepts yields a fresh access token.
\* expires_in is a positive lifetime (RFC 6749), here 1 or 3 units.
ExpiresIn == {1, 3}
Codes == {<<"code", 1>>, <<"code", 2>>}
OneCode == {<<"code", 1>>}
ExchangedAccessToken(code) == <<"at", code[2], 0>>
ExchangedRefreshToken(code) == <<"rt", code[2], 0>>
RefreshedAccessToken(k) == <<"at", 0, k>>

\* --------------------------------------------------------------------- CORS
\* The Origin header of a request: absent, on the allow-list, or another one.
NoOrigin == "undefined"
Origins == {NoOrigin, "https://zerotwo.ai", "https://evil.example"}
allowedOrigins == {"https://zerotwo.ai", "http://localhost:3000", "http://localhost:5173"}
\* the Access-Control-Allow-Origin header setCorsHeaders puts on the response
setCorsHeaders(origin) ==
  LET requestOrigin == IF origin = NoOrigin THEN "*" ELSE origin
  IN IF requestOrigin \in allowedOrigins THEN requestOrigin ELSE "*"
\* The response object the listener hands to a handler: the header set on it
\* so far, and the Origin of the request it answers.
Res(origin) == [origin |-> origin, allowOrigin |-> setCorsHeaders(origin)]
NoRes == [origin |-> "none", allowOrigin |-> "none"]

\* ------------------------------------------------------------------- clock
now == 0
Max(a, b) == IF a >= b THEN a ELSE b
\* one unit later, an instant lies one unit further back
Earlier(t, floor) == Max(t - 1, floor)

\* ---------------------------------------------------------- widget assets
\* The entries of ASSETS_DIR that readWidgetHtml can tell apart, for the
\* component list-records: a name is the text before the first character
\* that matters and the characters that follow it.
ComponentName == "list-records"
DotHtml == <<".", "h", "t", "m", "l">>
DirectEntry == <<ComponentName, DotHtml>>
VersionedAaa == <<ComponentName, <<"-", "a", "a", "a">> \o DotHtml>>
VersionedBbb == <<ComponentName, <<"-", "b", "b", "b">> \o DotHtml>>
VersionedB == <<ComponentName, <<"-", "b">> \o DotHtml>>
StyleSheet == <<ComponentName, <<"-", "z", "z", "z", ".", "c", "s", "s">>>>
NestedEntry == <<"src/components/list-records", DotHtml>>
\* what readdirSync(ASSETS_DIR) can list, and all that can be read
TopLevelEntries == {DirectEntry, VersionedAaa, VersionedBbb, VersionedB, StyleSheet}
Entries == TopLevelEntries \cup {NestedEntry}

Absent == <<"ENOENT">>
TextOf(e) == <<"text", e>>
\* what a file may hold: nothing, or markup of its own
ContentsOf(e) == {EmptyString, TextOf(e)}
NotBuilt == [dir |-> FALSE, entry |-> [e \in Entries |-> Absent]]
FileSystems ==
  {NotBuilt} \cup
  {[dir |-> TRUE, entry |-> f] :
     f \in {g \in [Entries -> {Absent, EmptyString} \cup {TextOf(e) : e \in Entries}] :
              /\ \A e \in Entries : g[e] \in {Absent} \cup ContentsOf(e)
              /\ g[StyleSheet] # EmptyString}}

\* UTF-16 code units, the order Array.prototype.sort compares strings by
CodeUnit(ch) ==
  CASE ch = "-" -> 45 [] ch = "." -> 46 [] ch = "a" -> 97 [] ch = "b" -> 98
    [] ch = "c" -> 99 [] ch = "h" -> 104 [] ch = "l" -> 108 [] ch = "m" -> 109
    [] ch = "s" -> 115 [] ch = "t" -> 116 [] ch = "z" -> 122
RECURSIVE LexLess(_, _)
LexLess(a, b) ==
  IF a = <<>> THEN b # <<>>
  ELSE IF b = <<>> THEN FALSE
  ELSE IF CodeUnit(Head(a)) # CodeUnit(Head(b)) THEN CodeUnit(Head(a)) < CodeUnit(Head(b))
  ELSE LexLess(Tail(a), Tail(b))

StartsWithDash(e, componentName) ==
  e[1] = componentName /\ Len(e[2]) >= 1 /\ e[2][1] = "-"
EndsWithHtml(e) ==
  Len(e[2]) >= Len(DotHtml) /\ SubSeq(e[2], Len(e[2]) - Len(DotHtml) + 1, Len(e[2])) = DotHtml
Candidates(F, componentName) ==
  {e \in TopLevelEntries : /\ F.entry[e] # Absent
                           /\ StartsWithDash(e, componentName) /\ EndsWithHtml(e)}
\* variant: candidates[0]
FirstSorted(S) == CHOOSE e \in S : \A g \in S \ {e} : LexLess(e[2], g[2])
\* candidates[candidates.length - 1] of the sorted array
LastSorted(S) == CHOOSE e \in S : \A g \in S \ {e} : LexLess(g[2], e[2])

NotBuiltPlaceholder == <<"placeholder", "Widget assets not built">>
NotFoundPlaceholder == <<"placeholder", "Widget HTML not found">>

readWidgetHtml(F, componentName) ==
  IF ~F.dir THEN NotBuiltPlaceholder
  ELSE LET directPath == <<componentName, DotHtml>>
           nestedPath == <<"src/components/" \o componentName, DotHtml>>
           candidates == Candidates(F, componentName)
           htmlContents ==
             IF F.entry[directPath] # Absent THEN F.entry[directPath]
             ELSE IF candidates # {} THEN F.entry[LastSorted(candidates)]
             ELSE IF F.entry[nestedPath] # Absent THEN F.entry[nestedPath]
             ELSE Null
       IN IF htmlContents = Null \/ htmlContents = EmptyString
            THEN NotFoundPlaceholder
            ELSE htmlContents

\* the widgets array: every html field is "" and is never assigned
WidgetHtml(id) == EmptyString
WidgetIds == {ComponentName}
TemplateUri(id) == <<"ui://widget/", id, ".html">>
UnknownUri == <<"ui://widget/", "no-such-widget", ".html">>

VARIABLES
  authSessions,         \* Map sessionId -> session object (0: no entry)
  heap,                 \* the session objects authSessions and handlers refer to
  pendingAuthStates,    \* Map state -> {sessionId, createdAt}
  sessions,             \* Map transport id -> SessionRecord (authHeader field)
  sessionAuthHeaders,   \* Map session id -> Authorization header
  transportToSessionId, \* Map transport id -> session id (0: no entry)
  nstreams,             \* streams opened so far (next fresh ids)
  nnonce,               \* nonces generated so far
  nrefresh,             \* refreshes the token endpoint has accepted so far
  consumed,             \* the states a callback has installed a token with
  redeemed,             \* authorization codes the endpoint has redeemed
  procs,                \* the requests in flight and their last results
  http,                 \* the response of the last request answered at once
  files,                \* the assets directory: entry -> content (NoDir: not built)
  loaded                \* the markup the first load of the widget from a file gave

vars == <<authSessions, heap, pendingAuthStates, sessions, sessionAuthHeaders,
          transportToSessionId, nstreams, nnonce, nrefresh, consumed, redeemed, procs, http,
          files, loaded>>
assets == <<files, loaded>>

stores == <<authSessions, heap, pendingAuthStates, sessions, sessionAuthHeaders,
            transportToSessionId>>

SessionRecordOf(sessionId, authHeader) ==
  [open |-> TRUE, server |-> sessionId, authHeader |-> authHeader]
NoSession == [open |-> FALSE, server |-> 0, authHeader |-> NoHeader]

\* A request in flight: the local variables its handler holds across an await.
FreeProc == [pc |-> "free", sid |-> 0, tool |-> None, arguments |-> "valid", session |-> 0,
             accessToken |-> Null, state |-> 0, code |-> NoCode, res |-> NoRes]
\* A response: what the handler that has just ended answered, and for whom.
NoHttp == [ep |-> None, status |-> None, body |-> None, q |-> 0, auth |-> FALSE,
           sid |-> 0, tool |-> None, arguments |-> None, state |-> 0, structured |-> FALSE, meta |-> None,
           accessToken |-> Null, code |-> NoCode, error |-> FALSE,
           uri |-> None, text |-> Null, origin |-> None, allowOrigin |-> None,
           target |-> <<>>, path |-> <<>>]
\* the response as it is sent: with the Access-Control-Allow-Origin header
\* that is on the response object when the head is written
Sent(response, res, allowOrigin) ==
  [response EXCEPT !.origin = res.origin, !.allowOrigin = allowOrigin]

\* the server after start-up, whatever the assets directory holds
InitServer ==
  /\ authSessions = [s \in SessionIds |-> 0]
  /\ heap = [o \in ObjIds |-> NoObj]
  /\ pendingAuthStates = [n \in Nonces |-> NoPending]
  /\ sessions = [t \in TransportIds |-> NoSession]
  /\ sessionAuthHeaders = [k \in Keys |-> NoHeader]
  /\ transportToSessionId = [t \in TransportIds |-> 0]
  /\ nstreams = 0
  /\ nnonce = 0
  /\ nrefresh = 0
  /\ consumed = {}
  /\ redeemed = {}
  /\ procs = [p \in ProcIds |-> FreeProc]
  /\ http = NoHttp
  /\ loaded = Null

\* the server started from the repository as it is checked out: the widget
\* assets are not built
Init == InitServer /\ files = NotBuilt

\* Node runs one handler at a time: while a handler that answers at once has
\* written its response, no other handler runs; Return hands control back.
Idle == http = NoHttp

Return ==
  /\ http # NoHttp
  /\ UNCHANGED assets
  /\ http' = NoHttp
  /\ UNCHANGED <<authSessions, heap, pendingAuthStates, sessions, sessionAuthHeaders,
                 transportToSessionId, nstreams, nnonce, nrefresh, consumed, redeemed, procs>>

\* ------------------------------------------------------------------ clock
Tick ==
  /\ Idle
  /\ UNCHANGED assets
  /\ heap' = [o \in ObjIds |->
                IF heap[o] = NoObj THEN NoObj
                ELSE [heap[o] EXCEPT !.expiresAt = Earlier(@, now)]]
  /\ pendingAuthStates' = [n \in Nonces |->
                IF pendingAuthStates[n] = NoPending THEN NoPending
                ELSE [pendingAuthStates[n] EXCEPT
                        !.createdAt = Earlier(@, now - PENDING_TTL - 1)]]
  /\ UNCHANGED <<authSessions, sessions, sessionAuthHeaders, transportToSessionId,
                 nstreams, nnonce, nrefresh, consumed, redeemed, procs, http>>

\* The head of the response to GET /mcp: the event stream once the server is
\* connected, 500 when server.connect threw. Line 2062 has replaced the
\* header the listener set.
SseResponse(res, sessionId, ok) ==
  Sent([NoHttp EXCEPT !.ep = "sse", !.status = IF ok THEN "200" ELSE "500",
                      !.body = IF ok THEN "event-stream"
                               ELSE "Failed to establish SSE connection",
                      !.sid = sessionId],
       res, "*")

\* variant: every stream is given the same session id
handleSseRequestOneSession(res, authHeader, ok) ==
  LET actualSessionId == 1
      transportId == Tid(nstreams + 1)
  IN /\ Idle
     /\ UNCHANGED assets
     /\ nstreams < MaxStreams
     /\ nstreams' = nstreams + 1
     /\ transportToSessionId' = [transportToSessionId EXCEPT ![transportId] = actualSessionId]
     /\ sessionAuthHeaders' = IF authHeader # NoHeader
                              THEN [sessionAuthHeaders EXCEPT ![actualSessionId] = authHeader]
                              ELSE sessionAuthHeaders
     /\ sessions' = IF ok
                    THEN [sessions EXCEPT ![transportId] =
                            SessionRecordOf(actualSessionId, authHeader)]
                    ELSE sessions
     /\ http' = SseResponse(res, actualSessionId, ok)
     /\ UNCHANGED <<authSessions, heap, pendingAuthStates, nnonce, nrefresh, consumed, redeemed,
                    procs>>

\* ------------------------------------------------------- handleSseRequest
\* GET /mcp: always called without a session id, so one is minted. `ok` is
\* whether server.connect(transport) succeeds; when it throws only the
\* SessionRecord is removed again.
handleSseRequest(res, authHeader, ok) ==
  LET actualSessionId == nstreams + 1
      transportId == Tid(nstreams + 1)
  IN /\ Idle
     /\ UNCHANGED assets
     /\ nstreams < MaxStreams
     /\ nstreams' = nstreams + 1
     /\ transportToSessionId' = [transportToSessionId EXCEPT ![transportId] = actualSessionId]
     /\ sessionAuthHeaders' = IF authHeader # NoHeader
                              THEN [sessionAuthHeaders EXCEPT ![actualSessionId] = authHeader]
                              ELSE sessionAuthHeaders
     /\ sessions' = IF ok
                    THEN [sessions EXCEPT ![transportId] =
                            SessionRecordOf(actualSessionId, authHeader)]
                    ELSE sessions
     /\ http' = SseResponse(res, actualSessionId, ok)
     /\ UNCHANGED <<authSessions, heap, pendingAuthStates, nnonce, nrefresh, consumed, redeemed,
                    procs>>

\* variant: the close hook also forgets the session's token
oncloseDropsToken(transportId) ==
  LET mappedSessionId == transportToSessionId[transportId]
  IN /\ Idle
     /\ UNCHANGED assets
     /\ sessions[transportId] # NoSession
     /\ sessionAuthHeaders' = IF mappedSessionId # 0
                              THEN [sessionAuthHeaders EXCEPT ![mappedSessionId] = NoHeader]
                              ELSE sessionAuthHeaders
     /\ transportToSessionId' = [transportToSessionId EXCEPT ![transportId] = 0]
     /\ sessions' = [sessions EXCEPT ![transportId] = NoSession]
     /\ authSessions' = IF mappedSessionId # 0
                        THEN [authSessions EXCEPT ![mappedSessionId] = 0]
                        ELSE authSessions
     /\ UNCHANGED <<heap, pendingAuthStates, nstreams, nnonce, nrefresh,
                    consumed, redeemed, procs, http>>

\* transport.onclose
onclose(transportId) ==
  LET mappedSessionId == transportToSessionId[transportId]
  IN /\ Idle
     /\ UNCHANGED assets
     /\ sessions[transportId] # NoSession
     /\ sessionAuthHeaders' = IF mappedSessionId # 0
                              THEN [sessionAuthHeaders EXCEPT ![mappedSessionId] = NoHeader]
                              ELSE sessionAuthHeaders
     /\ transportToSessionId' = [transportToSessionId EXCEPT ![transportId] = 0]
     /\ sessions' = [sessions EXCEPT ![transportId] = NoSession]
     /\ UNCHANGED <<authSessions, heap, pendingAuthStates, nstreams, nnonce, nrefresh,
                    consumed, redeemed, procs, http>>

\* --------------------------------------------------------------- the heap
\* authSessions holds references to session objects; getValidAccessToken
\* keeps the reference it read across its await.
Referenced(a, pr) == ({a[s] : s \in SessionIds} \cup {pr[p].session : p \in ProcIds}) \ {0}
FreshObj(a, pr) ==
  CHOOSE o \in ObjIds : o \notin Referenced(a, pr)
                        /\ \A o2 \in ObjIds : o2 < o => o2 \in Referenced(a, pr)
Collect(h, a, pr) == [o \in ObjIds |-> IF o \in Referenced(a, pr) THEN h[o] ELSE NoObj]

\* ------------------------------------------------------------ tool catalog
Tools == {"list_bases", "get_base_schema", "list_tables", "list_fields", "list_views",
          "list_records", "get_record", "create_record", "update_record",
          "replace_record", "delete_record", "batch_create_records",
          "batch_update_records", "batch_delete_records", "query_records",
          "get_view_records", "upload_attachment", "list_attachments", "get_comments",
          "create_comment", "upsert_record", "validate_schema_compatibility"}
\* the case of list_bases never calls its parser
ParsesArguments(tool) == tool # "list_bases"
\* An arguments object, by how it stands to the tool's input schema: it
\* satisfies the schema, lacks a required property, holds a value of another
\* type than the schema gives, or holds a property the schema does not name
\* beside otherwise fitting ones. The schema of list_bases has no properties.
Payloads == {"valid", "missing", "wrong_type", "extra"}
PayloadsOf(tool) == IF tool = "list_bases" THEN {"valid", "extra"} ELSE Payloads
\* inputSchema: required, the properties' types, additionalProperties: false
SatisfiesSchema(tool, arguments) == arguments = "valid"
\* z.object({...}).parse: a missing or ill-typed property throws; a key the
\* object does not declare is dropped from the parsed value
ParserAccepts(tool, arguments) == arguments \in {"valid", "extra"}
\* the descriptor's _meta: the widget the tool declares, if any
DescriptorMeta(tool) ==
  CASE tool = "list_records" -> "list-records"
    [] tool = "get_record" -> "get-record"
    [] tool = "create_record" -> "create-records"
    [] tool = "update_record" -> "update-record"
    [] tool = "create_comment" -> "create-comment"
    [] OTHER -> None
\* variant: update_record answers with the widget of get_record
ResultMetaOfGetRecord(tool) ==
  CASE tool = "list_records" -> "list-records"
    [] tool = "get_record" -> "get-record"
    [] tool = "create_record" -> "create-records"
    [] tool = "update_record" -> "get-record"
    [] tool = "create_comment" -> "create-comment"
    [] OTHER -> None
\* get_comments and create_comment catch the failure of the backend call
CatchesUpstream(tool) == tool \in {"get_comments", "create_comment"}
ReturnsStructured(tool) == tool # "delete_record"
\* the widget of the _meta of the tool's result
ResultMeta(tool) ==
  CASE tool = "list_records" -> "list-records"
    [] tool = "get_record" -> "get-record"
    [] tool = "create_record" -> "create-records"
    [] tool = "update_record" -> "update-record"
    [] tool = "create_comment" -> "create-comment"
    [] OTHER -> None

\* the requests the clients of this specification post
RequestNames == {"list_records", "no_such_tool"}
RequestArgs == {"valid"}

\* ------------------------------------------------------- getValidAccessToken
\* variants of the staleness test: without the buffer, and only once past expiry
NeedsRefreshWithoutBuffer(t, expiresAt) == t >= expiresAt
NeedsRefreshOnlyWhenPast(t, expiresAt) == t > expiresAt
NeedsRefresh(t, expiresAt) == t >= expiresAt - REFRESH_BUFFER

\* ------------------------------------------------------------- results
\* What the CallTool handler returns or throws, as the response of the request.
ToolResponse(pr, status, body) ==
  [NoHttp EXCEPT !.ep = "tool", !.status = status, !.body = body, !.sid = pr.sid,
                 !.tool = pr.tool, !.arguments = pr.arguments]
AuthUrlResult(pr, state) == [ToolResponse(pr, "result", "auth_url") EXCEPT !.state = state]
ErrorResult(pr, err) == ToolResponse(pr, "error", err)
OkResult(pr) ==
  [ToolResponse(pr, "result", "ok") EXCEPT !.structured = ReturnsStructured(pr.tool),
                                           !.meta = ResultMeta(pr.tool),
                                           !.accessToken = pr.accessToken]
CaughtResult(pr) ==
  [ToolResponse(pr, "result", "caught") EXCEPT !.accessToken = pr.accessToken]

Falsy(accessToken) == accessToken = Null \/ accessToken = EmptyString

\* The CallTool handler from `if (!accessToken)` on (lines 1288-2040), up to
\* the backend call. No nonce is generated beyond MaxNonces.
CanContinue(accessToken) == Falsy(accessToken) => nnonce < MaxNonces

\* the request goes on to its backend call
Invokes(pr, accessToken) ==
  /\ ~Falsy(accessToken)
  /\ pr.tool \in Tools
  /\ ParsesArguments(pr.tool) => ParserAccepts(pr.tool, pr.arguments)

ProcAfterGate(pr, accessToken) ==
  IF Invokes(pr, accessToken)
    THEN [FreeProc EXCEPT !.pc = "invoking", !.sid = pr.sid, !.tool = pr.tool,
                          !.arguments = pr.arguments, !.accessToken = accessToken]
    ELSE FreeProc

\* variant: a switch whose default case returns instead of throwing
HttpAfterGateNoDefault(pr, accessToken) ==
  IF Falsy(accessToken) THEN AuthUrlResult(pr, nnonce + 1)
  ELSE IF pr.tool \notin Tools THEN ToolResponse(pr, "result", "ok")
  ELSE IF ParsesArguments(pr.tool) /\ ~ParserAccepts(pr.tool, pr.arguments) THEN ErrorResult(pr, "validation")
  ELSE NoHttp

HttpAfterGate(pr, accessToken) ==
  IF Falsy(accessToken) THEN AuthUrlResult(pr, nnonce + 1)
  ELSE IF pr.tool \notin Tools THEN ErrorResult(pr, "unknown_tool")
  ELSE IF ParsesArguments(pr.tool) /\ ~ParserAccepts(pr.tool, pr.arguments) THEN ErrorResult(pr, "validation")
  ELSE NoHttp

\* variant: the nonce is stored with no session id
PendingAfterGateNoSession(sessionId, accessToken) ==
  IF Falsy(accessToken)
    THEN [pendingAuthStates EXCEPT ![nnonce + 1] = [sessionId |-> 0, createdAt |-> now]]
    ELSE pendingAuthStates

\* variant: a nonce is stored for every request, with or without a credential
PendingAfterGateAlways(sessionId, accessToken) ==
  IF nnonce < MaxNonces
    THEN [pendingAuthStates EXCEPT ![nnonce + 1] = [sessionId |-> sessionId, createdAt |-> now]]
    ELSE pendingAuthStates

PendingAfterGate(sessionId, accessToken) ==
  IF Falsy(accessToken)
    THEN [pendingAuthStates EXCEPT ![nnonce + 1] = [sessionId |-> sessionId, createdAt |-> now]]
    ELSE pendingAuthStates

NonceAfterGate(accessToken) == IF Falsy(accessToken) THEN nnonce + 1 ELSE nnonce

\* the lowest free slot takes the next request
\* the tool requests of session sessionId that have not been answered yet
InFlightFor(sessionId) ==
  {p2 \in ProcIds : procs[p2].pc \in {"posted", "refreshing", "invoking"}
                    /\ procs[p2].sid = sessionId}
FreeSlot(p) == procs[p].pc = "free" /\ \A p2 \in ProcIds : p2 < p => procs[p2].pc # "free"

\* ----------------------------------------------------------- handlePostMessage
\* q is the sessionId query parameter (0: missing). The request accepted, its
\* body is read before the CallTool handler starts.
PostResponse(status, body, q, authHeader) ==
  [NoHttp EXCEPT !.ep = "post", !.status = status, !.body = body, !.q = q,
                 !.auth = authHeader # NoHeader]

\* the checks of the sessionId parameter (lines 2109-2121): the response that
\* ends the request, or NoHttp when the request goes on
PostRejection(q, authHeader) ==
  IF q = 0 THEN PostResponse("400", "Missing sessionId query parameter", q, authHeader)
  ELSE IF sessions[q] = NoSession THEN PostResponse("404", "Unknown session", q, authHeader)
  ELSE NoHttp

\* variant: the header is stored before the session is looked up
handlePostMessageStoresFirst(res, p, q, authHeader) ==
  /\ Idle
  /\ UNCHANGED assets
  /\ IF PostRejection(q, authHeader) # NoHttp
       THEN /\ http' = Sent(PostRejection(q, authHeader), res, "*")
            /\ sessionAuthHeaders' =
                 IF authHeader # NoHeader /\ q # 0
                   THEN [sessionAuthHeaders EXCEPT ![q] = authHeader]
                   ELSE sessionAuthHeaders
            /\ UNCHANGED <<sessions, procs>>
     ELSE /\ FreeSlot(p)
          /\ sessions' = IF authHeader # NoHeader
                           THEN [sessions EXCEPT ![q].authHeader = authHeader]
                           ELSE sessions
          /\ sessionAuthHeaders' =
               IF authHeader # NoHeader
                 THEN IF transportToSessionId[q] # 0
                        THEN [sessionAuthHeaders EXCEPT ![transportToSessionId[q]] = authHeader]
                        ELSE [sessionAuthHeaders EXCEPT ![q] = authHeader]
                 ELSE sessionAuthHeaders
          /\ procs' = [procs EXCEPT ![p] =
                         [FreeProc EXCEPT !.pc = "posted", !.sid = sessions[q].server]]
          /\ UNCHANGED http
  /\ UNCHANGED <<authSessions, heap, pendingAuthStates, transportToSessionId,
                 nstreams, nnonce, nrefresh, consumed, redeemed>>

handlePostMessage(res, p, q, authHeader) ==
  /\ Idle
  /\ UNCHANGED assets
  /\ IF PostRejection(q, authHeader) # NoHttp
       THEN /\ http' = Sent(PostRejection(q, authHeader), res, "*")
            /\ UNCHANGED <<sessions, sessionAuthHeaders, procs>>
     ELSE /\ FreeSlot(p)
          /\ sessions' = IF authHeader # NoHeader
                           THEN [sessions EXCEPT ![q].authHeader = authHeader]
                           ELSE sessions
          /\ sessionAuthHeaders' =
               IF authHeader # NoHeader
                 THEN IF transportToSessionId[q] # 0
                        THEN [sessionAuthHeaders EXCEPT ![transportToSessionId[q]] = authHeader]
                        ELSE [sessionAuthHeaders EXCEPT ![q] = authHeader]
                 ELSE sessionAuthHeaders
          /\ procs' = [procs EXCEPT ![p] =
                         [FreeProc EXCEPT !.pc = "posted", !.sid = sessions[q].server]]
          /\ UNCHANGED http
  /\ UNCHANGED <<authSessions, heap, pendingAuthStates, transportToSessionId,
                 nstreams, nnonce, nrefresh, consumed, redeemed>>

\* --------------------------------------------- CallToolRequestSchema handler
\* From the start of the handler to its first network await. The posted body
\* is read by now: name and arguments are request.params.
CallTool(p, name, arguments) ==
  LET pr == [procs[p] EXCEPT !.tool = name, !.arguments = arguments]
      sessionId == pr.sid
      o == authSessions[sessionId]
      storedAuthHeader == sessionAuthHeaders[sessionId]
  IN /\ Idle
     /\ UNCHANGED assets
     /\ pr.pc = "posted"
     /\ IF o # 0
          THEN IF NeedsRefresh(now, heap[o].expiresAt)
                 THEN /\ procs' = [procs EXCEPT ![p] = [pr EXCEPT !.pc = "refreshing",
                                                                  !.session = o]]
                      /\ UNCHANGED <<authSessions, heap, pendingAuthStates, nnonce, http>>
                 ELSE /\ CanContinue(heap[o].accessToken)
                      /\ procs' = [procs EXCEPT ![p] = ProcAfterGate(pr, heap[o].accessToken)]
                      /\ http' = HttpAfterGate(pr, heap[o].accessToken)
                      /\ pendingAuthStates' = PendingAfterGate(sessionId, heap[o].accessToken)
                      /\ nnonce' = NonceAfterGate(heap[o].accessToken)
                      /\ UNCHANGED <<authSessions, heap>>
        ELSE IF storedAuthHeader # NoHeader /\ StartsWithBearer(storedAuthHeader)
          THEN LET accessToken == Substring7(storedAuthHeader)
                   fresh == FreshObj(authSessions, procs)
               IN /\ CanContinue(accessToken)
                  /\ authSessions' = [authSessions EXCEPT ![sessionId] = fresh]
                  /\ heap' = [heap EXCEPT ![fresh] =
                                [accessToken |-> accessToken, refreshToken |-> EmptyString,
                                 expiresAt |-> now + DELEGATED_TTL]]
                  /\ procs' = [procs EXCEPT ![p] = ProcAfterGate(pr, accessToken)]
                  /\ http' = HttpAfterGate(pr, accessToken)
                  /\ pendingAuthStates' = PendingAfterGate(sessionId, accessToken)
                  /\ nnonce' = NonceAfterGate(accessToken)
        ELSE /\ CanContinue(Null)
             /\ procs' = [procs EXCEPT ![p] = ProcAfterGate(pr, Null)]
             /\ http' = HttpAfterGate(pr, Null)
             /\ pendingAuthStates' = PendingAfterGate(sessionId, Null)
             /\ nnonce' = NonceAfterGate(Null)
             /\ UNCHANGED <<authSessions, heap>>
     /\ UNCHANGED <<sessions, sessionAuthHeaders, transportToSessionId, nstreams,
                    nrefresh, consumed, redeemed>>

\* variant: the refreshed token is stored and the expiry is left as it was
RefreshOkTokenOnly(p, expires_in) ==
  LET pr == procs[p]
      session == pr.session
      mutated == [heap EXCEPT ![session] =
                    [@ EXCEPT !.accessToken = RefreshedAccessToken(nrefresh + 1)]]
  IN /\ Idle
     /\ UNCHANGED assets
     /\ pr.pc = "refreshing"
     /\ heap[session].refreshToken # EmptyString
     /\ nrefresh < MaxRefreshes
     /\ nrefresh' = nrefresh + 1
     /\ authSessions' = [authSessions EXCEPT ![pr.sid] = session]
     /\ procs' = [procs EXCEPT ![p] = ProcAfterGate(pr, RefreshedAccessToken(nrefresh + 1))]
     /\ http' = HttpAfterGate(pr, RefreshedAccessToken(nrefresh + 1))
     /\ heap' = Collect(mutated, authSessions', procs')
     /\ UNCHANGED <<pendingAuthStates, sessions, sessionAuthHeaders,
                    transportToSessionId, nstreams, nnonce, consumed, redeemed>>

\* refreshAccessToken resolves: the endpoint answers a request that carried a
\* refresh token with its next response; expires_in is the lifetime it grants.
RefreshOk(p, expires_in) ==
  LET pr == procs[p]
      session == pr.session
      mutated == [heap EXCEPT ![session] =
                    [@ EXCEPT !.accessToken = RefreshedAccessToken(nrefresh + 1),
                              !.expiresAt = now + expires_in]]
  IN /\ Idle
     /\ UNCHANGED assets
     /\ pr.pc = "refreshing"
     /\ heap[session].refreshToken # EmptyString
     /\ nrefresh < MaxRefreshes
     /\ nrefresh' = nrefresh + 1
     /\ authSessions' = [authSessions EXCEPT ![pr.sid] = session]
     /\ procs' = [procs EXCEPT ![p] = ProcAfterGate(pr, RefreshedAccessToken(nrefresh + 1))]
     /\ http' = HttpAfterGate(pr, RefreshedAccessToken(nrefresh + 1))
     /\ heap' = Collect(mutated, authSessions', procs')
     /\ UNCHANGED <<pendingAuthStates, sessions, sessionAuthHeaders,
                    transportToSessionId, nstreams, nnonce, consumed, redeemed>>

\* variant: a failed refresh drops the stored token
RefreshFailDropsSession(p) ==
  LET pr == procs[p]
  IN /\ Idle
     /\ UNCHANGED assets
     /\ pr.pc = "refreshing"
     /\ procs' = [procs EXCEPT ![p] = FreeProc]
     /\ http' = ErrorResult(pr, "refresh_failed")
     /\ authSessions' = [authSessions EXCEPT ![pr.sid] = 0]
     /\ heap' = Collect(heap, authSessions', procs')
     /\ UNCHANGED <<pendingAuthStates, sessions, sessionAuthHeaders,
                    transportToSessionId, nstreams, nnonce, nrefresh, consumed, redeemed>>

\* refreshAccessToken throws (response not ok): the handler ends with the error.
RefreshFail(p) ==
  LET pr == procs[p]
  IN /\ Idle
     /\ UNCHANGED assets
     /\ pr.pc = "refreshing"
     /\ procs' = [procs EXCEPT ![p] = FreeProc]
     /\ http' = ErrorResult(pr, "refresh_failed")
     /\ heap' = Collect(heap, authSessions, procs')
     /\ UNCHANGED <<authSessions, pendingAuthStates, sessions, sessionAuthHeaders,
                    transportToSessionId, nstreams, nnonce, nrefresh, consumed, redeemed>>

\* airtableApiRequest resolves or throws.
BackendResult(pr, responseOk) ==
  IF responseOk THEN OkResult(pr)
  ELSE IF CatchesUpstream(pr.tool) THEN CaughtResult(pr)
  ELSE ErrorResult(pr, "upstream")

Backend(p, responseOk) ==
  LET pr == procs[p]
  IN /\ Idle
     /\ UNCHANGED assets
     /\ pr.pc = "invoking"
     /\ procs' = [procs EXCEPT ![p] = FreeProc]
     /\ http' = BackendResult(pr, responseOk)
     /\ UNCHANGED <<authSessions, heap, pendingAuthStates, sessions, sessionAuthHeaders,
                    transportToSessionId, nstreams, nnonce, nrefresh, consumed, redeemed>>

\* ----------------------------------------------------------- handleAuthCallback
Expired(createdAt) == now - createdAt > PENDING_TTL
Sweep(pending) == [n \in Nonces |-> IF pending[n] # NoPending /\ Expired(pending[n].createdAt)
                                      THEN NoPending ELSE pending[n]]
\* pendingAuthStates.get(state): undefined for a key the map never held
PendingAuth(state) == IF state \in Nonces THEN pendingAuthStates[state] ELSE NoPending
CallbackResponse(status, body, sessionId, state) ==
  [NoHttp EXCEPT !.ep = "callback", !.status = status, !.body = body, !.sid = sessionId,
                 !.state = state]

\* the checks of the callback's parameters (lines 2151-2174): the response
\* that ends the request, or NoHttp when the request goes on. state 0 and
\* code NoCode stand for a missing parameter.
CallbackRequest(body, code, state, error) ==
  [CallbackResponse("400", body, 0, state) EXCEPT !.code = code, !.error = error]

\* variant: the code and state are looked at before the error
CallbackRejectionChecksCodeFirst(code, state, error) ==
  IF code = NoCode \/ state = 0
    THEN CallbackRequest("Missing code or state parameter", code, state, error)
  ELSE IF error THEN CallbackRequest("Authentication Failed", code, state, error)
  ELSE IF PendingAuth(state) = NoPending
    THEN CallbackRequest("Invalid or expired state parameter", code, state, error)
  ELSE NoHttp

CallbackRejection(code, state, error) ==
  IF error THEN CallbackRequest("Authentication Failed", code, state, error)
  ELSE IF code = NoCode \/ state = 0
    THEN CallbackRequest("Missing code or state parameter", code, state, error)
  ELSE IF PendingAuth(state) = NoPending
    THEN CallbackRequest("Invalid or expired state parameter", code, state, error)
  ELSE NoHttp

\* GET /auth/callback up to the await of exchangeCodeForToken.
handleAuthCallback(res, p, code, state, error) ==
  /\ Idle
  /\ UNCHANGED assets
  /\ IF CallbackRejection(code, state, error) # NoHttp
       THEN /\ http' = Sent(CallbackRejection(code, state, error), res, res.allowOrigin)
            /\ UNCHANGED <<pendingAuthStates, procs>>
     ELSE /\ FreeSlot(p)
          /\ pendingAuthStates' = Sweep(pendingAuthStates)
          /\ procs' = [procs EXCEPT ![p] =
                         [FreeProc EXCEPT !.pc = "exchanging",
                                          !.sid = pendingAuthStates[state].sessionId,
                                          !.state = state, !.code = code, !.res = res]]
          /\ UNCHANGED http
  /\ UNCHANGED <<authSessions, heap, sessions, sessionAuthHeaders, transportToSessionId,
                 nstreams, nnonce, nrefresh, consumed, redeemed>>

\* variant: the nonce is kept after the exchange
ExchangeOkKeepsNonce(p, expires_in) ==
  LET pr == procs[p]
      fresh == FreshObj([authSessions EXCEPT ![pr.sid] = 0], procs)
      installed == [heap EXCEPT ![fresh] =
                      [accessToken |-> ExchangedAccessToken(pr.code),
                       refreshToken |-> ExchangedRefreshToken(pr.code),
                       expiresAt |-> now + expires_in]]
  IN /\ Idle
     /\ UNCHANGED assets
     /\ pr.pc = "exchanging"
     /\ pr.code \notin redeemed
     /\ redeemed' = redeemed \cup {pr.code}
     /\ authSessions' = [authSessions EXCEPT ![pr.sid] = fresh]
     /\ consumed' = consumed \cup {pr.state}
     /\ procs' = [procs EXCEPT ![p] = FreeProc]
     /\ heap' = Collect(installed, authSessions', procs')
     /\ http' = Sent(CallbackResponse("200", "Successfully Connected to Airtable!", pr.sid, pr.state),
                     pr.res, pr.res.allowOrigin)
     /\ UNCHANGED <<pendingAuthStates, sessions, sessionAuthHeaders, transportToSessionId,
                    nstreams, nnonce, nrefresh>>

\* variant: the exchanged token is not stored
ExchangeOkNoInstall(p, expires_in) ==
  LET pr == procs[p]
  IN /\ Idle
     /\ UNCHANGED assets
     /\ pr.pc = "exchanging"
     /\ pr.code \notin redeemed
     /\ redeemed' = redeemed \cup {pr.code}
     /\ pendingAuthStates' = [pendingAuthStates EXCEPT ![pr.state] = NoPending]
     /\ consumed' = consumed \cup {pr.state}
     /\ procs' = [procs EXCEPT ![p] = FreeProc]
     /\ http' = Sent(CallbackResponse("200", "Successfully Connected to Airtable!", pr.sid, pr.state),
                     pr.res, pr.res.allowOrigin)
     /\ UNCHANGED <<authSessions, heap, sessions, sessionAuthHeaders, transportToSessionId,
                    nstreams, nnonce, nrefresh>>

\* exchangeCodeForToken resolves: the endpoint redeems a code it has not redeemed.
ExchangeOk(p, expires_in) ==
  LET pr == procs[p]
      fresh == FreshObj([authSessions EXCEPT ![pr.sid] = 0], procs)
      installed == [heap EXCEPT ![fresh] =
                      [accessToken |-> ExchangedAccessToken(pr.code),
                       refreshToken |-> ExchangedRefreshToken(pr.code),
                       expiresAt |-> now + expires_in]]
  IN /\ Idle
     /\ UNCHANGED assets
     /\ pr.pc = "exchanging"
     /\ pr.code \notin redeemed
     /\ redeemed' = redeemed \cup {pr.code}
     /\ authSessions' = [authSessions EXCEPT ![pr.sid] = fresh]
     /\ pendingAuthStates' = [pendingAuthStates EXCEPT ![pr.state] = NoPending]
     /\ consumed' = consumed \cup {pr.state}
     /\ procs' = [procs EXCEPT ![p] = FreeProc]
     /\ heap' = Collect(installed, authSessions', procs')
     /\ http' = Sent(CallbackResponse("200", "Successfully Connected to Airtable!", pr.sid, pr.state),
                     pr.res, pr.res.allowOrigin)
     /\ UNCHANGED <<sessions, sessionAuthHeaders, transportToSessionId, nstreams, nnonce,
                    nrefresh>>

\* exchangeCodeForToken throws.
ExchangeFail(p) ==
  LET pr == procs[p]
  IN /\ Idle
     /\ UNCHANGED assets
     /\ pr.pc = "exchanging"
     /\ procs' = [procs EXCEPT ![p] = FreeProc]
     /\ http' = Sent(CallbackResponse("500", "Authentication Error", pr.sid, pr.state),
                     pr.res, pr.res.allowOrigin)
     /\ UNCHANGED <<authSessions, heap, pendingAuthStates, sessions, sessionAuthHeaders,
                    transportToSessionId, nstreams, nnonce, nrefresh, consumed, redeemed>>

\* ------------------------------------------------ ReadResourceRequestSchema
ResourceContents(id, html) ==
  [NoHttp EXCEPT !.ep = "resource", !.status = "result", !.body = "contents",
                 !.uri = TemplateUri(id), !.text = html, !.meta = id]
UnknownResource(uri) ==
  [NoHttp EXCEPT !.ep = "resource", !.status = "error", !.body = "unknown_resource",
                 !.uri = uri]
\* the markup came from a file
FromFile(html) == html[1] = "text"

\* resources/read posted on the open transport q
ReadResource(q, uri) ==
  /\ Idle
  /\ sessions[q] # NoSession
  /\ IF \E id \in WidgetIds : TemplateUri(id) = uri
       THEN LET widget == CHOOSE id \in WidgetIds : TemplateUri(id) = uri
                html == IF WidgetHtml(widget) # EmptyString
                          THEN WidgetHtml(widget)
                          ELSE readWidgetHtml(files, widget)
            IN /\ http' = ResourceContents(widget, html)
               /\ loaded' = IF loaded = Null /\ FromFile(html) THEN html ELSE loaded
     ELSE /\ http' = UnknownResource(uri)
          /\ UNCHANGED loaded
  /\ UNCHANGED <<authSessions, heap, pendingAuthStates, sessions, sessionAuthHeaders,
                 transportToSessionId, nstreams, nnonce, nrefresh, consumed, redeemed,
                 procs, files>>

\* the assets directory is built, rebuilt or removed between requests
WriteFile(e, contents) ==
  /\ Idle
  /\ files.dir
  /\ files' = [files EXCEPT !.entry[e] = contents]
  /\ UNCHANGED <<authSessions, heap, pendingAuthStates, sessions, sessionAuthHeaders,
                 transportToSessionId, nstreams, nnonce, nrefresh, consumed, redeemed,
                 procs, http, loaded>>
MakeDir ==
  /\ Idle
  /\ ~files.dir
  /\ files' = [files EXCEPT !.dir = TRUE]
  /\ UNCHANGED <<authSessions, heap, pendingAuthStates, sessions, sessionAuthHeaders,
                 transportToSessionId, nstreams, nnonce, nrefresh, consumed, redeemed,
                 procs, http, loaded>>
RemoveDir ==
  /\ Idle
  /\ files.dir
  /\ files' = NotBuilt
  /\ UNCHANGED <<authSessions, heap, pendingAuthStates, sessions, sessionAuthHeaders,
                 transportToSessionId, nstreams, nnonce, nrefresh, consumed, redeemed,
                 procs, http, loaded>>

\* ------------------------------------------------- httpServer request listener
\* a state parameter the server never issued
ForgedState == MaxNonces + 1
\* the Authorization header of a request, when it has one
RequestHeaders == {Bearer(1, 1), NoHeader}
\* A path is the sequence of its segments, a segment a name written as the
\* widget entries are: a stem and the characters after it. No stem used here
\* begins with another one, the empty one apart.
Seg(name) == <<name, <<>>>>
DotDot == Seg("..")
EmptySeg == Seg("")
\* ROOT_DIR is wherever the server is installed; ASSETS_DIR is ROOT_DIR/assets
ROOT_DIR == <<Seg("srv"), Seg("app")>>
ASSETS_DIR == ROOT_DIR \o <<Seg("assets")>>
\* a directory beside ASSETS_DIR whose name begins with "assets", and the
\* file kept in it
Sibling == <<"assets", <<"-", "o", "l", "d">>>>
OutsideFiles == {ROOT_DIR \o <<Sibling, DirectEntry>>}
ssePath == <<Seg("mcp")>>
postPath == <<Seg("mcp"), Seg("messages")>>
authCallbackPath == <<Seg("auth"), Seg("callback")>>
\* the request-target "//", for which new URL(req.url, base) throws
SlashSlash == <<EmptySeg, EmptySeg>>
UrlParses(target) == target # SlashSlash

\* ".." leaves the directory entered last, and the root is never left
RECURSIVE RemoveDotSegments(_, _)
RemoveDotSegments(out, in) ==
  IF in = <<>> THEN out
  ELSE IF Head(in) = DotDot
    THEN RemoveDotSegments(IF out = <<>> THEN out ELSE SubSeq(out, 1, Len(out) - 1), Tail(in))
  ELSE RemoveDotSegments(Append(out, Head(in)), Tail(in))
\* variant: the target's path is taken as it was sent
UrlPathnameAsSent(target) == target
\* url.pathname: the URL parser removes the dot segments of the target
UrlPathname(target) == RemoveDotSegments(<<>>, target)
\* path.resolve(path.join(dir, rel)), dir being absolute
PathResolveJoin(dir, rel) == RemoveDotSegments(<<>>, dir \o rel)
\* String.prototype.startsWith on the names and on the paths written out
NameStartsWith(name, prefix) ==
  /\ name[1] = prefix[1]
  /\ Len(prefix[2]) <= Len(name[2])
  /\ SubSeq(name[2], 1, Len(prefix[2])) = prefix[2]
PathStartsWith(path, dir) ==
  /\ Len(path) >= Len(dir)
  /\ \A i \in 1..(Len(dir) - 1) : path[i] = dir[i]
  /\ NameStartsWith(path[Len(dir)], dir[Len(dir)])
\* fs.existsSync(path) && fs.statSync(path).isFile()
IsFile(F, path) ==
  \/ path \in OutsideFiles
  \/ /\ F.dir
     /\ Len(path) = Len(ASSETS_DIR) + 1
     /\ SubSeq(path, 1, Len(ASSETS_DIR)) = ASSETS_DIR
     /\ path[Len(path)] \in TopLevelEntries
     /\ F.entry[path[Len(path)]] # Absent

ListenerResponse(res, status, body, target) ==
  Sent([NoHttp EXCEPT !.ep = "http", !.status = status, !.body = body, !.target = target],
       res, res.allowOrigin)
\* the static branch (lines 2268-2302): 403, the file, or the final 404
StaticResponse(res, target) ==
  LET assetPath == UrlPathname(target)
      resolvedPath == PathResolveJoin(ASSETS_DIR, assetPath)
      answer == [NoHttp EXCEPT !.ep = "static", !.target = target, !.path = resolvedPath]
  IN IF ~PathStartsWith(resolvedPath, ASSETS_DIR)
       THEN Sent([answer EXCEPT !.status = "403", !.body = "Forbidden"], res, res.allowOrigin)
     ELSE IF IsFile(files, resolvedPath)
       THEN Sent([answer EXCEPT !.status = "200", !.body = "file"], res, "*")
     ELSE Sent([answer EXCEPT !.status = "404", !.body = "Not Found"], res, res.allowOrigin)

\* a request the listener answers itself; no store is touched
Respond(response) ==
  /\ Idle
  /\ http' = response
  /\ UNCHANGED <<authSessions, heap, pendingAuthStates, sessions, sessionAuthHeaders,
                 transportToSessionId, nstreams, nnonce, nrefresh, consumed, redeemed,
                 procs, files, loaded>>

\* The listener is an async function with no try/catch of its own: when
\* new URL throws, the promise it returned is rejected and nothing answers.
UnhandledRejection(origin, target) ==
  [NoHttp EXCEPT !.ep = "http", !.status = "unhandledRejection", !.origin = origin,
                 !.target = target]

\* One request: its method, its target's path and its Origin header, and
\* what the route taken reads besides: the Authorization header, the query
\* parameters, the outcome of the connect.
httpServer(method, target, origin) ==
  LET res == Res(origin)
  IN IF ~UrlParses(target) THEN Respond(UnhandledRejection(origin, target))
     ELSE LET pathname == UrlPathname(target)
          IN IF method = "OPTIONS" /\ pathname \in {ssePath, postPath}
               THEN Respond(ListenerResponse(res, "204", "", target))
             ELSE IF method = "GET" /\ pathname = ssePath
               THEN \E authHeader \in RequestHeaders, ok \in BOOLEAN :
                      handleSseRequest(res, authHeader, ok)
             ELSE IF method = "POST" /\ pathname = postPath
               THEN \E p \in SerialProcIds, q \in TransportIds \cup {0},
                       authHeader \in RequestHeaders :
                      handlePostMessage(res, p, q, authHeader)
             ELSE IF method = "GET" /\ pathname = authCallbackPath
               THEN \E p \in SerialProcIds, code \in OneCode \cup {NoCode},
                       state \in Nonces \cup {0, ForgedState}, error \in BOOLEAN :
                      handleAuthCallback(res, p, code, state, error)
             ELSE IF method = "GET"
               THEN Respond(StaticResponse(res, target))
             ELSE Respond(ListenerResponse(res, "404", "Not Found", target))

\* ------------------------------------------------------------- environment
\* the client of stream k posts to its own transport, to one that is not open,
\* or with no sessionId at all
ClientOf(q) == IF q = 0 THEN 1 ELSE q - MaxStreams
OpenStream == \E h \in HeadersOf(nstreams + 1) \cup {NoHeader}, ok \in BOOLEAN :
                handleSseRequest(Res(NoOrigin), h, ok)
CloseStream == \E t \in TransportIds : onclose(t)
Post(P) == \E p \in P, q \in TransportIds \cup {0} :
             \E h \in HeadersOf(ClientOf(q)) \cup {NoHeader} : handlePostMessage(Res(NoOrigin), p, q, h)
Dispatch == \E p \in ProcIds, name \in RequestNames, arguments \in RequestArgs :
              CallTool(p, name, arguments)
Refreshed == \E p \in ProcIds, e \in ExpiresIn : RefreshOk(p, e)
RefreshFailed == \E p \in ProcIds : RefreshFail(p)
Invoked == \E p \in ProcIds, ok \in BOOLEAN : Backend(p, ok)
Callback(P, C) == \E p \in P, code \in C \cup {NoCode}, state \in Nonces \cup {0, ForgedState},
                     error \in BOOLEAN : handleAuthCallback(Res(NoOrigin), p, code, state, error)
Exchanged == \E p \in ProcIds, e \in ExpiresIn : ExchangeOk(p, e)
ExchangeFailed == \E p \in ProcIds : ExchangeFail(p)

\* One client and its session, MaxProcs requests in flight at once; the user
\* is granted one authorization code.
OpenFirstStream == nstreams = 0 /\ OpenStream
PostSerial == Post(SerialProcIds)
CallbackSerial == Callback(SerialProcIds, OneCode)

Next == Tick \/ Return \/ OpenFirstStream \/ CloseStream \/ PostSerial \/ Dispatch
          \/ Refreshed \/ RefreshFailed \/ Invoked
          \/ CallbackSerial \/ Exchanged \/ ExchangeFailed

Spec == Init /\ [][Next]_vars

\* One client and its session, handlers that overlap, two authorization codes.
PostOverlapping == Post(ProcIds)
CallbackOverlapping == Callback(ProcIds, Codes)

NextOverlapping == Tick \/ Return \/ OpenFirstStream \/ CloseStream \/ PostOverlapping
                     \/ Dispatch \/ Refreshed \/ RefreshFailed \/ Invoked
                     \/ CallbackOverlapping \/ Exchanged \/ ExchangeFailed

SpecOverlapping == Init /\ [][NextOverlapping]_vars

\* Every client opens its stream; requests of different sessions overlap.
\* Each client sends its own bearer or no header and asks for list_records.
OpenShared == \E h \in {Bearer(nstreams + 1, 1), NoHeader} : handleSseRequest(Res(NoOrigin), h, TRUE)
PostShared == \E p \in ProcIds, q \in TransportIds :
                \E h \in {Bearer(ClientOf(q), 1), NoHeader} : handlePostMessage(Res(NoOrigin), p, q, h)
DispatchShared == \E p \in ProcIds : CallTool(p, "list_records", "valid")
CallbackShared == \E p \in ProcIds, code \in OneCode, state \in Nonces :
                    handleAuthCallback(Res(NoOrigin), p, code, state, FALSE)

NextShared == Tick \/ Return \/ OpenShared \/ CloseStream \/ PostShared \/ DispatchShared
                \/ Refreshed \/ RefreshFailed \/ Invoked
                \/ CallbackShared \/ Exchanged \/ ExchangeFailed

SpecShared == Init /\ [][NextShared]_vars

\* One client that reconnects: it opens a stream when it has none open, with
\* its bearer or with no header, and posts to the transports it was given.
NoStreamOpen == \A t \in TransportIds : sessions[t] = NoSession
OpenReconnect == /\ NoStreamOpen
                 /\ \E h \in {Bearer(1, 1), NoHeader} : handleSseRequest(Res(NoOrigin), h, TRUE)
PostReconnect == \E p \in SerialProcIds, q \in TransportIds :
                   \E h \in {Bearer(1, 1), NoHeader} : handlePostMessage(Res(NoOrigin), p, q, h)

NextReconnect == Tick \/ Return \/ OpenReconnect \/ CloseStream \/ PostReconnect \/ Dispatch
                   \/ Refreshed \/ RefreshFailed \/ Invoked
                   \/ CallbackSerial \/ Exchanged \/ ExchangeFailed

SpecReconnect == Init /\ [][NextReconnect]_vars

\* One client that changes its bearer credential between its posts.
DelegatedHeaders == {Bearer(1, 1), Bearer(1, 2)}
PostDelegated == \E p \in SerialProcIds, q \in TransportIds :
                   \E h \in DelegatedHeaders \cup {NoHeader} : handlePostMessage(Res(NoOrigin), p, q, h)

NextDelegated == Tick \/ Return \/ OpenFirstStream \/ CloseStream \/ PostDelegated
                   \/ Dispatch \/ RefreshFailed \/ Invoked

SpecDelegated == Init /\ [][NextDelegated]_vars

\* One client that posts a second message while its first is in flight, and
\* no third one before the second is answered.
PostPipelined == \E p \in ProcIds, q \in TransportIds :
                   /\ p = 1 => procs[2].pc = "free"
                   /\ \E h \in {Bearer(1, 1), NoHeader} : handlePostMessage(Res(NoOrigin), p, q, h)

NextPipelined == Return \/ OpenFirstStream \/ CloseStream \/ PostPipelined
                   \/ Dispatch \/ Invoked

SpecPipelined == Init /\ [][NextPipelined]_vars

\* Requests to the three routes and to paths under and around the assets
\* directory, from every kind of origin; one stream is open at a time. The
\* assets are not built, or the build holds the widget's page and a style
\* sheet.
Methods == {"GET", "POST", "OPTIONS"}
StaticSegs == {DotDot, Sibling, DirectEntry, StyleSheet}
MaxSegs == 2
StaticTargets == UNION {[1..n -> StaticSegs] : n \in 0..MaxSegs}
Targets == StaticTargets \cup {ssePath, postPath, authCallbackPath, SlashSlash,
                               <<Sibling, DotDot>> \o ssePath}
Built == [dir |-> TRUE,
          entry |-> [e \in Entries |-> IF e \in {DirectEntry, StyleSheet}
                                        THEN TextOf(e) ELSE Absent]]
InitHttp == InitServer /\ files \in {NotBuilt, Built}
Request ==
  \E method \in Methods, target \in Targets, origin \in Origins :
    /\ nstreams = 0 \/ UrlPathname(target) # ssePath
    /\ httpServer(method, target, origin)

NextHttp == Return \/ Request \/ CloseStream \/ Dispatch \/ Invoked
              \/ Exchanged \/ ExchangeFailed

SpecHttp == InitHttp /\ [][NextHttp]_vars

\* One client that calls every tool of the catalog, and a name outside it,
\* with every kind of arguments object, with its bearer or with no header.
PostTools == \E p \in SerialProcIds, q \in TransportIds :
               \E h \in {Bearer(1, 1), NoHeader} : handlePostMessage(Res(NoOrigin), p, q, h)
DispatchTools == \E p \in ProcIds, name \in Tools \cup {"no_such_tool"} :
                   \E arguments \in (IF name \in Tools THEN PayloadsOf(name) ELSE Payloads) :
                     CallTool(p, name, arguments)

NextTools == Return \/ OpenFirstStream \/ CloseStream \/ PostTools \/ DispatchTools \/ Invoked

SpecTools == Init /\ [][NextTools]_vars

\* One client reading the widget's markup while the assets directory, which
\* holds any files at start-up, changes between its requests.
InitResources == InitServer /\ files \in FileSystems
ReadAny == \E q \in TransportIds, uri \in {TemplateUri(ComponentName), UnknownUri} :
             ReadResource(q, uri)
ChangeFile == \E e \in Entries \ {StyleSheet} :
                \E c \in {Absent} \cup ContentsOf(e) : WriteFile(e, c)
ChangeStyleSheet == \E c \in {Absent, TextOf(StyleSheet)} : WriteFile(StyleSheet, c)

NextResources == Return \/ OpenFirstStream \/ CloseStream \/ ReadAny
                   \/ ChangeFile \/ ChangeStyleSheet \/ MakeDir \/ RemoveDir

SpecResources == InitResources /\ [][NextResources]_vars

\* ================================================================ properties
\* Steps of the CallTool handler, recognised from the slot of the request.
\* getValidAccessToken starts on a session that holds a token
AcquiresStored(p) ==
  /\ procs[p].pc = "posted" /\ procs'[p].pc # "posted"
  /\ authSessions[procs[p].sid] # 0
\* ... and returns the stored token without a refresh
ReturnsStored(p) == AcquiresStored(p) /\ procs'[p].pc # "refreshing"
\* ... or returns after its refresh call succeeded
ReturnsRefreshed(p) ==
  /\ procs[p].pc = "refreshing" /\ procs'[p].pc # "refreshing"
  /\ nrefresh' = nrefresh + 1
\* ... or throws because its refresh call failed
RefreshFails(p) ==
  /\ procs[p].pc = "refreshing" /\ procs'[p].pc # "refreshing"
  /\ nrefresh' = nrefresh
StoredBefore(p) == heap[authSessions[procs[p].sid]]
StoredAfter(p) == heap'[authSessions'[procs[p].sid]]

\* C1: whenever getValidAccessToken returns a token (the stored one, or the
\* one a successful refresh produced), the expiry recorded for the session
\* is later than the current time, and the token returned is the recorded one.
AcquireNeverReturnsExpired ==
  [][\A p \in ProcIds :
       (ReturnsStored(p) \/ ReturnsRefreshed(p)) =>
         /\ StoredAfter(p).expiresAt > now
         /\ procs'[p].pc = "invoking" => procs'[p].accessToken = StoredAfter(p).accessToken]_vars

\* C1 witness: a request goes to the backend with the token of a refresh whose
\* recorded expiry is ahead
AcquireReturnedRefreshed ==
  \E p \in ProcIds : /\ procs[p].pc = "invoking"
                     /\ procs[p].accessToken = RefreshedAccessToken(1)
                     /\ heap[authSessions[procs[p].sid]].expiresAt > now

\* C2: getValidAccessToken on a stored token issues its one refresh call
\* exactly when now >= expiry - 5 minutes; otherwise it issues none, returns
\* the stored token and leaves the stored state as it was. No request makes a
\* second refresh call.
RefreshIffWithinBuffer ==
  [][\A p \in ProcIds :
       /\ AcquiresStored(p) =>
            IF now >= StoredBefore(p).expiresAt - REFRESH_BUFFER
              THEN /\ procs'[p].pc = "refreshing"
                   /\ procs'[p].session = authSessions[procs[p].sid]
                   /\ UNCHANGED <<authSessions, heap, nrefresh>>
              ELSE /\ procs'[p].pc # "refreshing"
                   /\ UNCHANGED <<authSessions, heap, nrefresh>>
                   /\ procs'[p].pc = "invoking" =>
                        procs'[p].accessToken = StoredBefore(p).accessToken
       /\ procs[p].pc \in {"refreshing", "invoking"} /\ procs'[p] # procs[p] =>
            procs'[p].pc \in {"invoking", "free"}
       /\ nrefresh' \in {nrefresh, nrefresh + 1}]_vars

\* C2 witness: a refresh call is in flight for a token that has not expired
\* yet but is inside the buffer
RefreshingInsideBuffer ==
  \E p \in ProcIds : /\ procs[p].pc = "refreshing"
                     /\ heap[procs[p].session].expiresAt = now + REFRESH_BUFFER

\* C3: when the refresh call fails, the request ends with that error, no
\* second attempt is made, and the session's stored token, refresh token and
\* expiry are what they were before the call.
RefreshFailureLeavesStored ==
  [][\A p \in ProcIds :
       RefreshFails(p) =>
         /\ http' = ErrorResult(procs[p], "refresh_failed")
         /\ procs'[p] = FreeProc
         /\ authSessions' = authSessions
         /\ StoredAfter(p) = StoredBefore(p)]_vars

\* C3 witness: a request ended with the refresh error on a session that
\* still holds its token
RefreshFailedStillStored ==
  /\ http.ep = "tool" /\ http.body = "refresh_failed"
  /\ authSessions[http.sid] # 0
  /\ heap[authSessions[http.sid]].accessToken # Null

\* Steps of handleAuthCallback and of the exchange it awaits.
\* the callback accepted the nonce and went on to the code exchange
StartsExchange(p) == procs[p].pc = "free" /\ procs'[p].pc = "exchanging"
\* the exchange succeeded and the callback installed the token
Installs(p) ==
  /\ procs[p].pc = "exchanging" /\ procs'[p].pc = "free"
  /\ http'.ep = "callback" /\ http'.status = "200"

\* C4: a nonce is accepted by the callback up to ten minutes after it was
\* issued, and later than that the callback answers as for an unknown nonce
\* and starts no exchange, swept or not.
NonceUnknownAfterTtl ==
  [][/\ \A p \in ProcIds :
          StartsExchange(p) =>
            ~(now - pendingAuthStates[procs'[p].state].createdAt > PENDING_TTL)
     /\ (/\ http'.ep = "callback"
         /\ http'.body = "Invalid or expired state parameter"
         /\ http # http') =>
          \/ PendingAuth(http'.state) = NoPending
          \/ now - pendingAuthStates[http'.state].createdAt > PENDING_TTL]_vars

\* C5: of the callbacks that carry one nonce, at most one installs a token,
\* and once one has, no later callback with that nonce is accepted.
NonceConsumedOnce ==
  [][\A p \in ProcIds :
       /\ Installs(p) => procs[p].state \notin consumed
       /\ StartsExchange(p) => procs'[p].state \notin consumed]_vars

\* the CallTool handler ran for a session with no stored token and no
\* stored header
DispatchesWithNoCredential(p) ==
  /\ procs[p].pc = "posted" /\ procs'[p].pc # "posted"
  /\ authSessions[procs[p].sid] = 0
  /\ sessionAuthHeaders[procs[p].sid] = NoHeader

\* C6: a dispatch for a session with no stored token and no stored header
\* ends with a successful result carrying the authorization URL, and the
\* state of that URL is a nonce not in use before, which the dispatch stored
\* with the calling session's id and the current time.
NoCredentialYieldsAuthUrl ==
  [][/\ \A p \in ProcIds :
          DispatchesWithNoCredential(p) =>
            /\ procs'[p] = FreeProc
            /\ http'.ep = "tool" /\ http'.status = "result" /\ http'.body = "auth_url"
            /\ http'.sid = procs[p].sid
     /\ (http'.body = "auth_url" /\ http # http') =>
          /\ http'.state \in Nonces
          /\ http'.state > nnonce
          /\ pendingAuthStates[http'.state] = NoPending
          /\ http'.state \notin consumed
          /\ pendingAuthStates' =
               [pendingAuthStates EXCEPT ![http'.state] =
                  [sessionId |-> http'.sid, createdAt |-> now]]]_vars

\* C6 witness: the authorization URL was returned and its nonce is stored
\* for the session that asked
AuthUrlReturned ==
  /\ http.ep = "tool" /\ http.status = "result" /\ http.body = "auth_url"
  /\ pendingAuthStates[http.state] = [sessionId |-> http.sid, createdAt |-> now]
  /\ authSessions[http.sid] = 0

\* C7 as stated: a request naming a tool outside the catalog ends with the
\* unknown-tool error whatever credential the session has.
UnknownToolAlwaysNotFound ==
  (http.ep = "tool" /\ http.tool \notin Tools) =>
    (http.status = "error" /\ http.body = "unknown_tool")

\* the gate adopted the bearer of the stored header
Adopts(p) ==
  /\ procs[p].pc = "posted" /\ procs'[p].pc # "posted"
  /\ authSessions[procs[p].sid] = 0 /\ authSessions'[procs[p].sid] # 0
\* the gate resolved a credential for the request
Resolved(p) ==
  \/ ReturnsStored(p) /\ ~Falsy(StoredBefore(p).accessToken)
  \/ ReturnsRefreshed(p)
  \/ Adopts(p) /\ ~Falsy(StoredAfter(p).accessToken)

\* C7 amended: a request naming a tool outside the catalog never reaches the
\* backend; it ends with the unknown-tool error when the gate resolved a
\* credential, with the refresh error when the refresh failed, and with the
\* authorization URL when the session has no credential.
UnknownToolAfterGate ==
  [][\A p \in ProcIds :
       /\ (procs'[p].pc = "invoking" /\ procs[p].pc # "invoking") => procs'[p].tool \in Tools
       /\ (/\ procs[p].pc \in {"posted", "refreshing"}
           /\ procs'[p] = FreeProc
           /\ http'.ep = "tool" /\ http'.tool \notin Tools) =>
            /\ http'.sid = procs[p].sid
            /\ IF Resolved(p)
                 THEN http'.status = "error" /\ http'.body = "unknown_tool"
               ELSE IF RefreshFails(p)
                 THEN http'.status = "error" /\ http'.body = "refresh_failed"
               ELSE http'.status = "result" /\ http'.body = "auth_url"]_vars

\* C7 witness: the unknown-tool error was returned to a session with a token
UnknownToolRejected ==
  /\ http.ep = "tool" /\ http.tool = "no_such_tool"
  /\ http.status = "error" /\ http.body = "unknown_tool"
  /\ authSessions[http.sid] # 0

\* A step of a handler (every step but the passing of time).
HandlerStep == procs' # procs \/ http' # http \/ sessions' # sessions \/ nstreams' # nstreams
\* the step belongs to a request or a callback of session a
ActsFor(a) == \E p \in ProcIds : procs'[p] # procs[p] /\ a \in {procs[p].sid, procs'[p].sid}
TokenStateOf(a, b, h) == IF a[b] = 0 THEN NoObj ELSE h[a[b]]
\* the credential a client supplied: the session of that client
SuppliedBy(accessToken) == IF accessToken[1] = "hdr" THEN accessToken[2] ELSE 0
\* no request of a session is at the backend with a credential that another
\* session stores, or that another session's client supplied
OwnCredentialOnly ==
  \A p \in ProcIds :
    procs[p].pc = "invoking" =>
      /\ SuppliedBy(procs[p].accessToken) \in {0, procs[p].sid}
      /\ \A b \in SessionIds \ {procs[p].sid} :
           /\ TokenStateOf(authSessions, b, heap).accessToken # procs[p].accessToken
           /\ sessionAuthHeaders[b] # NoHeader =>
                Substring7(sessionAuthHeaders[b]) # procs[p].accessToken

\* C8: a step taken for one session (dispatch, refresh, adoption of a posted
\* header, callback, close) leaves the token state stored for every other
\* session as it was, and the credential of a session's backend call is
\* never one another session stores or another session's client supplied.
SessionsIsolated ==
  [][/\ \A b \in SessionIds :
          (HandlerStep /\ ~ActsFor(b)) =>
            TokenStateOf(authSessions', b, heap') = TokenStateOf(authSessions, b, heap)
     /\ OwnCredentialOnly']_vars

\* C8 witness: one session holds a token adopted from its client's header,
\* another an exchanged token, and a request of the latter is at the backend
TwoSessionsHoldTokens ==
  \E p \in ProcIds, b \in SessionIds :
    /\ procs[p].pc = "invoking" /\ b # procs[p].sid
    /\ authSessions[procs[p].sid] # 0 /\ authSessions[b] # 0
    /\ SuppliedBy(heap[authSessions[b]].accessToken) = b
    /\ procs[p].accessToken = ExchangedAccessToken(<<"code", 1>>)

\* the request left the backend call with its result
BackendReturns(p) == procs[p].pc = "invoking" /\ procs'[p].pc = "free"

\* C9: a valid request on a session with no token and no header gets the
\* authorization URL; the callback with that URL's state, its exchange
\* succeeding, stores the exchanged token for that session; from then on a
\* request with valid arguments on that stream goes to the backend with the
\* stored token instead of getting the URL, and the backend's answer comes
\* back as a structured payload.
AuthorizeThenInvoke ==
  [][\A p \in ProcIds :
       /\ DispatchesWithNoCredential(p) =>
            /\ http'.body = "auth_url"
            /\ pendingAuthStates'[http'.state].sessionId = procs[p].sid
       /\ StartsExchange(p) => procs'[p].sid = pendingAuthStates[procs'[p].state].sessionId
       /\ Installs(p) =>
            /\ authSessions'[procs[p].sid] # 0
            /\ StoredAfter(p).accessToken = ExchangedAccessToken(procs[p].code)
            /\ StoredAfter(p).expiresAt > now
       /\ (ReturnsStored(p) /\ ~Falsy(StoredBefore(p).accessToken)) =>
            IF http'.tool \in Tools \/ http' = NoHttp
              THEN /\ http' = NoHttp
                   /\ procs'[p].pc = "invoking"
                   /\ procs'[p].accessToken = StoredBefore(p).accessToken
              ELSE http'.body = "unknown_tool"
       /\ (BackendReturns(p) /\ http'.body = "ok") =>
            /\ http'.status = "result"
            /\ http'.structured = (procs[p].tool # "delete_record")
            /\ http'.accessToken = procs[p].accessToken]_vars

\* C9 witness: a request came back with a structured payload, served with
\* the token exchanged for the nonce of an authorization URL
InvokedAfterAuthorizing ==
  /\ http.ep = "tool" /\ http.status = "result" /\ http.body = "ok" /\ http.structured
  /\ http.accessToken = ExchangedAccessToken(<<"code", 1>>)
  /\ consumed # {}

\* C10: a post without the sessionId parameter is answered 400 and one whose
\* sessionId names no open transport 404; neither starts a request and
\* neither changes a store, with or without an Authorization header; a
\* request starts only for an open transport.
PostRejectedChangesNothing ==
  [][/\ (http'.ep = "post" /\ http # http') =>
          /\ UNCHANGED <<stores, procs, nnonce, nrefresh, nstreams>>
          /\ http'.status = IF http'.q = 0 THEN "400" ELSE "404"
          /\ http'.q # 0 => sessions[http'.q] = NoSession
     /\ \A p \in ProcIds :
          (procs[p].pc = "free" /\ procs'[p].pc = "posted") =>
            /\ http' = NoHttp
            /\ \E q \in TransportIds : /\ sessions[q] # NoSession
                                       /\ sessions[q].server = procs'[p].sid]_vars

\* C10 witness: a post that carried an Authorization header and named no
\* open transport was answered 404
PostToUnknownSessionRejected ==
  /\ http.ep = "post" /\ http.status = "404" /\ http.auth /\ http.q # 0
  /\ sessions[http.q] = NoSession

\* the close hook of transport t ran
Closes(t) == sessions[t] # NoSession /\ sessions'[t] = NoSession

\* C11: the close hook of a stream removes its transport binding and the
\* header cached for its session, and changes nothing else: not the token
\* of that session, not the bindings, headers and tokens of other sessions.
CloseHookFrame ==
  [][\A t \in TransportIds :
       Closes(t) =>
         LET s == transportToSessionId[t]
         IN /\ s # 0
            /\ transportToSessionId'[t] = 0
            /\ sessionAuthHeaders'[s] = NoHeader
            /\ \A t2 \in TransportIds \ {t} :
                 /\ sessions'[t2] = sessions[t2]
                 /\ transportToSessionId'[t2] = transportToSessionId[t2]
            /\ \A k \in Keys \ {s} : sessionAuthHeaders'[k] = sessionAuthHeaders[k]
            /\ UNCHANGED <<authSessions, heap, pendingAuthStates, procs, http,
                           nstreams, nnonce, nrefresh>>]_vars

\* C11 witness: a stream was closed, its session still holds its token, and
\* the stream and the header of another session are still there
ClosedStreamKeepsToken ==
  \E k \in SessionIds, j \in SessionIds :
    /\ k # j /\ k <= nstreams
    /\ sessions[Tid(k)] = NoSession /\ transportToSessionId[Tid(k)] = 0
    /\ sessionAuthHeaders[k] = NoHeader
    /\ authSessions[k] # 0
    /\ heap[authSessions[k]].refreshToken = ExchangedRefreshToken(<<"code", 1>>)
    /\ sessions[Tid(j)] # NoSession /\ sessionAuthHeaders[j] # NoHeader

\* some session of the client holds a token that came from a code exchange
HoldsExchangedToken(s) ==
  authSessions[s] # 0 /\ heap[authSessions[s]].refreshToken # EmptyString

\* C12: once the client has logged in, a request on a stream it opened
\* later finds the token of that login, and no request of the client is
\* answered with an authorization URL again.
ReconnectKeepsLogin ==
  /\ \A p \in ProcIds :
       (procs[p].pc = "posted" /\ \E s \in SessionIds : HoldsExchangedToken(s)) =>
         HoldsExchangedToken(procs[p].sid)
  /\ (http.ep = "tool" /\ http.body = "auth_url") =>
       ~\E s \in SessionIds : HoldsExchangedToken(s)

\* the CallTool handler ran for a session whose stored token was adopted
\* from a header and is inside the refresh buffer, a bearer header being
\* stored for the session
DispatchesStaleDelegated(p) ==
  /\ AcquiresStored(p)
  /\ StoredBefore(p).refreshToken = EmptyString
  /\ now >= StoredBefore(p).expiresAt - REFRESH_BUFFER
  /\ sessionAuthHeaders[procs[p].sid] # NoHeader
  /\ StartsWithBearer(sessionAuthHeaders[procs[p].sid])

\* C13: no refresh call is made for a token adopted from a header, and a
\* request on a session whose adopted token is stale, a bearer header being
\* supplied again, goes on with the supplied credential.
DelegatedResupplied ==
  [][\A p \in ProcIds :
       /\ (AcquiresStored(p) /\ StoredBefore(p).refreshToken = EmptyString) =>
            procs'[p].pc # "refreshing"
       /\ DispatchesStaleDelegated(p) =>
            /\ http'.body \notin {"refresh_failed", "auth_url"}
            /\ procs'[p].pc = "invoking" =>
                 procs'[p].accessToken = Substring7(sessionAuthHeaders[procs[p].sid])]_vars

\* C14: a callback with an error parameter, or without code or state, or
\* with a state that is not pending, is answered 400, starts no exchange and
\* changes neither the tokens nor the pending states; the error parameter is
\* looked at first. An exchange starts only with a code and a pending state.
CallbackRejectedChangesNothing ==
  [][/\ (http'.ep = "callback" /\ http'.status = "400" /\ http' # http) =>
          /\ UNCHANGED <<stores, procs, redeemed, consumed>>
          /\ http'.body =
               IF http'.error THEN "Authentication Failed"
               ELSE IF http'.code = NoCode \/ http'.state = 0
                 THEN "Missing code or state parameter"
               ELSE "Invalid or expired state parameter"
          /\ http'.body = "Invalid or expired state parameter" =>
               PendingAuth(http'.state) = NoPending
     /\ \A p \in ProcIds :
          StartsExchange(p) =>
            /\ http' = NoHttp
            /\ procs'[p].code # NoCode /\ procs'[p].state # 0
            /\ pendingAuthStates[procs'[p].state] # NoPending]_vars

\* C14 witness: a callback that carried an error and no code was answered
\* with the failure page of the error
CallbackErrorTakesPrecedence ==
  /\ http.ep = "callback" /\ http.status = "400"
  /\ http.error /\ http.code = NoCode
  /\ http.body = "Authentication Failed"

\* the code exchange a callback awaited came back: the endpoint redeemed the
\* code, or it did not
ExchangeSucceeds(p) ==
  /\ procs[p].pc = "exchanging" /\ procs'[p].pc = "free"
  /\ redeemed' # redeemed
ExchangeFails(p) ==
  /\ procs[p].pc = "exchanging" /\ procs'[p].pc = "free"
  /\ redeemed' = redeemed

\* C15: a callback is exchanged for the session its nonce was issued to;
\* when the exchange succeeds the exchanged token is stored for that session
\* and for no other, the nonce is deleted and the success page is sent; when
\* it fails no token is stored or changed and the failure page is sent.
CallbackInstallsForIssuer ==
  [][\A p \in ProcIds :
       /\ StartsExchange(p) =>
            procs'[p].sid = pendingAuthStates[procs'[p].state].sessionId
       /\ ExchangeSucceeds(p) =>
            /\ authSessions'[procs[p].sid] # 0
            /\ StoredAfter(p).accessToken = ExchangedAccessToken(procs[p].code)
            /\ StoredAfter(p).refreshToken = ExchangedRefreshToken(procs[p].code)
            /\ StoredAfter(p).expiresAt > now
            /\ \A b \in SessionIds \ {procs[p].sid} :
                 TokenStateOf(authSessions', b, heap') = TokenStateOf(authSessions, b, heap)
            /\ pendingAuthStates'[procs[p].state] = NoPending
            /\ http'.ep = "callback" /\ http'.status = "200"
            /\ http'.body = "Successfully Connected to Airtable!"
       /\ ExchangeFails(p) =>
            /\ \A b \in SessionIds :
                 TokenStateOf(authSessions', b, heap') = TokenStateOf(authSessions, b, heap)
            /\ http'.ep = "callback" /\ http'.status = "500"
            /\ http'.body = "Authentication Error"]_vars

\* C15 witness: the success page was sent, the session of the nonce holds
\* the exchanged token, the nonce is gone and another session holds a token
\* of its own
CallbackInstalled ==
  /\ http.ep = "callback" /\ http.status = "200"
  /\ authSessions[http.sid] # 0
  /\ heap[authSessions[http.sid]].accessToken = ExchangedAccessToken(<<"code", 1>>)
  /\ pendingAuthStates[http.state] = NoPending
  /\ \E b \in SessionIds \ {http.sid} : authSessions[b] # 0

\* resources/read answered with the widget's markup
Resolves == http'.ep = "resource" /\ http'.status = "result" /\ http' # http

\* C16: once the widget's markup has been loaded from a file, every later
\* read of the widget returns that markup, whatever has happened to the
\* files since.
ResolveServesFirstLoad ==
  [][(Resolves /\ loaded # Null) => http'.text = loaded]_vars

\* The file the resolution order names first among the files present:
\* list-records.html, else the last of list-records-aaa.html <
\* list-records-b.html < list-records-bbb.html, else the nested file.
FirstHit(F) ==
  IF F.entry[DirectEntry] # Absent THEN DirectEntry
  ELSE IF F.entry[VersionedBbb] # Absent THEN VersionedBbb
  ELSE IF F.entry[VersionedB] # Absent THEN VersionedB
  ELSE IF F.entry[VersionedAaa] # Absent THEN VersionedAaa
  ELSE IF F.entry[NestedEntry] # Absent THEN NestedEntry
  ELSE Null
IsPlaceholder(html) == html[1] = "placeholder"
ReadsWidget == http.ep = "resource" /\ http.status = "result"

\* C17 as stated: a read of the widget returns the content of the first hit
\* of the resolution order, and a placeholder when there is no hit.
ResolveReturnsFirstHit ==
  ReadsWidget =>
    IF FirstHit(files) # Null
      THEN http.text = files.entry[FirstHit(files)]
      ELSE IsPlaceholder(http.text)

\* C17 amended: a read of the widget returns the content of the first hit
\* when that file is not empty, and a placeholder when it is empty or when
\* there is no hit; the read never fails.
ResolveReturnsFirstHitOrPlaceholder ==
  /\ ReadsWidget =>
       IF FirstHit(files) # Null /\ files.entry[FirstHit(files)] # EmptyString
         THEN http.text = files.entry[FirstHit(files)]
         ELSE IsPlaceholder(http.text)
  /\ (http.ep = "resource" /\ http.uri = TemplateUri(ComponentName)) => ReadsWidget

\* C17 witness: with only versioned files present, the read returned the
\* content of the last of them
ResolvedLastVersioned ==
  /\ ReadsWidget
  /\ files.entry[DirectEntry] = Absent
  /\ files.entry[VersionedAaa] # Absent /\ files.entry[VersionedB] # Absent
  /\ http.text = TextOf(VersionedBbb)

\* the dispatch of p, from the posted request to the backend call or the
\* response, with a credential in hand
DispatchesWithCredential(p) ==
  /\ procs[p].pc = "posted"
  /\ procs'[p].pc \in {"invoking", "free"}
  /\ procs'[p].pc = "free" => http'.body # "auth_url"

\* C18: a dispatch of a declared tool whose arguments do not satisfy the
\* tool's input schema (a required property missing, a value of the wrong
\* type, a property the schema does not allow) ends with a validation error
\* and goes to no backend call; every backend call carries arguments that
\* satisfy the schema.
InvalidArgumentsRejected ==
  [][\A p \in ProcIds :
       /\ (DispatchesWithCredential(p) /\ procs'[p].pc = "free"
           /\ http'.tool \in Tools /\ ~SatisfiesSchema(http'.tool, http'.arguments)) =>
            http'.status = "error" /\ http'.body = "validation"
       /\ procs'[p].pc = "invoking" =>
            SatisfiesSchema(procs'[p].tool, procs'[p].arguments)]_vars

\* C19: when the backend answers a call with a non-success status, the
\* dispatch ends with the upstream error, for every tool.
UpstreamFailurePropagates ==
  [][\A p \in ProcIds :
       (BackendReturns(p) /\ http'.body # "ok") =>
         http'.status = "error" /\ http'.body = "upstream"]_vars

\* C20: the result of a tool whose backend call succeeded carries widget
\* metadata exactly when the tool's descriptor declares a widget, and then
\* the metadata of that widget.
ResultMetaIffDescriptorMeta ==
  (http.ep = "tool" /\ http.status = "result" /\ http.body = "ok") =>
    http.meta = DescriptorMeta(http.tool)

\* C20 witness: update_record returned its result with the metadata of the
\* update-record widget
UpdateRecordResultCarriesMeta ==
  /\ http.ep = "tool" /\ http.status = "result" /\ http.body = "ok"
  /\ http.tool = "update_record" /\ http.meta = "update-record"

\* the token stored for each session
TokenStore == [s \in SessionIds |-> TokenStateOf(authSessions, s, heap)]
\* a step of the dispatch of p: the gate, the end of its refresh call, or the
\* end of its backend call
DispatchStep(p) ==
  /\ procs[p].pc \in {"posted", "refreshing", "invoking"}
  /\ procs'[p] # procs[p]
EndsInError(p) ==
  /\ DispatchStep(p) /\ procs'[p].pc = "free"
  /\ http'.ep = "tool" /\ http'.status = "error"
EndsWithAuthUrl(p) ==
  /\ DispatchStep(p) /\ procs'[p].pc = "free"
  /\ http'.ep = "tool" /\ http'.body = "auth_url"

\* C21: a dispatch that ends in an error leaves the token store, the
\* pending-authorization store and the session and transport registries as
\* they were when it started (stated for the dispatches that start and end
\* in one step, where nothing else can have run in between).
FailedDispatchWritesNothing ==
  [][\A p \in ProcIds :
       (EndsInError(p) /\ procs[p].pc = "posted") =>
         /\ TokenStore' = TokenStore
         /\ UNCHANGED <<pendingAuthStates, sessions, sessionAuthHeaders,
                        transportToSessionId>>]_vars

\* C21 amended: no step of a dispatch that does not end with the
\* authorization URL writes the pending-authorization store or the
\* registries, or the token of another session; the token of its own session
\* changes only by a whole adoption of the cached header or by a whole
\* refresh (token and expiry of one response, refresh token kept), and a
\* dispatch whose refresh fails changes no token.
FailedDispatchWritesWhole ==
  [][\A p \in ProcIds :
       (DispatchStep(p) /\ ~EndsWithAuthUrl(p)) =>
         LET s == procs[p].sid
         IN /\ UNCHANGED <<pendingAuthStates, sessions, sessionAuthHeaders,
                           transportToSessionId>>
            /\ \A b \in SessionIds \ {s} : TokenStore'[b] = TokenStore[b]
            /\ \/ TokenStore'[s] = TokenStore[s]
               \/ /\ Adopts(p)
                  /\ TokenStore'[s] = [accessToken |-> Substring7(sessionAuthHeaders[s]),
                                       refreshToken |-> EmptyString,
                                       expiresAt |-> now + DELEGATED_TTL]
               \/ /\ ReturnsRefreshed(p)
                  /\ \E e \in ExpiresIn :
                       TokenStore'[s] =
                         [TokenStore[s] EXCEPT !.accessToken = RefreshedAccessToken(nrefresh'),
                                               !.expiresAt = now + e]
            /\ (EndsInError(p) /\ http'.body = "refresh_failed") =>
                 TokenStore' = TokenStore]_vars

\* C21 witness: a request naming an unknown tool ended in its error on a
\* session whose token was adopted from the header
FailedAfterAdopting ==
  /\ http.ep = "tool" /\ http.status = "error" /\ http.body = "unknown_tool"
  /\ authSessions[http.sid] # 0
  /\ TokenStore[http.sid].refreshToken = EmptyString
  /\ TokenStore[http.sid].accessToken = Substring7(sessionAuthHeaders[http.sid])

\* a callback that carries a code and a state (and no error) was handled up
\* to its answer or to the start of its exchange
CallbackConsumes ==
  \/ /\ http'.ep = "callback" /\ http' # http /\ http'.status = "400"
     /\ http'.code # NoCode /\ http'.state # 0 /\ ~http'.error
  \/ \E p \in ProcIds : StartsExchange(p)

\* C25: when a callback that carries a code and a state has been handled,
\* the state known or not, no entry of the pending-authorization store is
\* older than ten minutes.
SweepsOnEveryConsume ==
  [][CallbackConsumes =>
       \A n \in Nonces :
         pendingAuthStates'[n] # NoPending => ~Expired(pendingAuthStates'[n].createdAt)]_vars

\* a refresh for session s completed with a token-endpoint response
RefreshCompletesFor(s) == \E p \in ProcIds : ReturnsRefreshed(p) /\ procs[p].sid = s

\* C26: the access token and the expiry stored for a session are always
\* those of one response: a refresh that completes stores its response's
\* token and expiry together, so that the session then holds the result of
\* the refresh that completed last, and no step changes one of the two
\* without the other, the passing of time apart.
RefreshWritesPairLastWins ==
  [][\A s \in SessionIds :
       LET old == TokenStore[s]
           new == TokenStore'[s]
       IN /\ RefreshCompletesFor(s) =>
               /\ new.accessToken = RefreshedAccessToken(nrefresh')
               /\ \E e \in ExpiresIn : new.expiresAt = now + e
          /\ (new.accessToken # old.accessToken /\ ~RefreshCompletesFor(s)) =>
               \/ old = NoObj /\ new.refreshToken = EmptyString
                             /\ new.expiresAt = now + DELEGATED_TTL
               \/ \E p \in ProcIds :
                    /\ Installs(p) /\ procs[p].sid = s
                    /\ new.accessToken = ExchangedAccessToken(procs[p].code)
                    /\ \E e \in ExpiresIn : new.expiresAt = now + e
          /\ (new.accessToken = old.accessToken /\ new.expiresAt # old.expiresAt) =>
               /\ procs' = procs /\ http' = http
               /\ new.expiresAt = Earlier(old.expiresAt, now)]_vars

\* C26 witness: of two refreshes of one session in flight at once, one has
\* completed and its result is stored while the other still waits
RefreshCompletedWhileAnotherInFlight ==
  \E p \in ProcIds :
    /\ procs[p].pc = "refreshing"
    /\ procs[p].session = authSessions[procs[p].sid]
    /\ TokenStore[procs[p].sid].accessToken = RefreshedAccessToken(1)
    /\ TokenStore[procs[p].sid].expiresAt = now + 3

\* C30: the refresh token stored for a session by a code exchange stays the
\* stored one until another exchange for that session replaces it, whatever
\* refresh completes in between.
ExchangeNotUndoneByRefresh ==
  [][\A s \in SessionIds :
       (/\ HoldsExchangedToken(s)
        /\ TokenStore'[s].refreshToken # TokenStore[s].refreshToken) =>
         \E p \in ProcIds : Installs(p) /\ procs[p].sid = s]_vars

\* C27: on a session with no token of a code exchange, a dispatch that goes
\* to the backend carries the bearer value of the header cached for the
\* session, which is the header of the latest post that carried one.
DelegatedLastWriteWins ==
  [][\A p \in ProcIds :
       LET s == procs[p].sid
       IN (/\ procs[p].pc = "posted" /\ procs'[p].pc = "invoking"
           /\ ~HoldsExchangedToken(s)
           /\ sessionAuthHeaders[s] # NoHeader
           /\ StartsWithBearer(sessionAuthHeaders[s])) =>
            procs'[p].accessToken = Substring7(sessionAuthHeaders[s])]_vars

\* Both requests are in flight on one session and m1 was posted before m2:
\* a request takes the second slot only while the first is taken, and this
\* client posts into the first slot only while the second is free.
ArrivedBefore(m1, m2) ==
  /\ m1 < m2
  /\ m1 \in InFlightFor(procs[m2].sid) /\ m2 \in InFlightFor(procs[m1].sid)

\* C28: of two messages posted on one connection, the one posted first is
\* dispatched first and answered first: the later one is neither dispatched
\* while the earlier one waits to be dispatched, nor answered while the
\* earlier one is still in flight.
ProcessedInArrivalOrder ==
  [][\A m1, m2 \in ProcIds :
       ArrivedBefore(m1, m2) =>
         /\ (procs[m2].pc = "posted" /\ procs'[m2].pc # "posted") => procs[m1].pc # "posted"
         /\ procs'[m2].pc = "free" => procs'[m1].pc = "free"]_vars

\* the transports bound to a session id are the transports with an open
\* session record, and a header is cached only for the session of such a one
RegistryConsistent ==
  /\ \A t \in TransportIds : transportToSessionId[t] # 0 <=> sessions[t] # NoSession
  /\ \A k \in Keys :
       sessionAuthHeaders[k] # NoHeader =>
         \E t \in TransportIds : sessions[t] # NoSession /\ transportToSessionId[t] = k

\* C29: after every step (stream open, failed connect, post, close) the
\* transport registry is consistent, and the session id a transport is bound
\* to does not change while the binding exists.
RegistryStaysConsistent ==
  [][/\ RegistryConsistent'
     /\ \A t \in TransportIds :
          (transportToSessionId[t] # 0 /\ transportToSessionId'[t] # 0) =>
            transportToSessionId'[t] = transportToSessionId[t]]_vars

\* C22: every request is answered: whatever fails while the listener or one
\* of the handlers runs becomes an error response, and no failure is left as
\* a rejection nothing handles.
NoFailureEscapes == http.status # "unhandledRejection"

\* C24: on the stream, post, callback and static endpoints the
\* Access-Control-Allow-Origin sent is the request's Origin when that origin
\* is on the allow-list, and "*" otherwise.
AllowOriginReflectsAllowList ==
  http.ep \in {"sse", "post", "callback", "static"} =>
    http.allowOrigin = IF http.origin \in allowedOrigins THEN http.origin ELSE "*"

\* path is dir or lies under it
InsideDir(path, dir) == Len(path) >= Len(dir) /\ SubSeq(path, 1, Len(dir)) = dir
\* the file the target names as it was sent, its dot segments resolved
\* against the assets directory
RequestedPath(target) == PathResolveJoin(ASSETS_DIR, target)

\* C23 as stated: a file is served only from inside the assets directory; a
\* request whose path resolves outside it, a sibling directory whose name
\* begins with "assets" included, is answered 403 with no content; a path
\* inside it that is not an existing file is answered 404.
OutsideRootForbidden ==
  http.ep = "static" =>
    /\ http.status = "200" => InsideDir(http.path, ASSETS_DIR) /\ IsFile(files, http.path)
    /\ ~InsideDir(RequestedPath(http.target), ASSETS_DIR) => http.status = "403"
    /\ (InsideDir(RequestedPath(http.target), ASSETS_DIR)
          /\ ~IsFile(files, RequestedPath(http.target))) => http.status = "404"

\* C23: a file is served only from inside the assets directory. The path
\* looked up is the target's path with its dot segments removed, joined to
\* the assets directory; it never lies outside that directory, so no request
\* is answered 403: the file at that path is served when it exists, and the
\* answer is 404 otherwise.
StaticServesInsideRootOnly ==
  http.ep = "static" =>
    /\ http.path = ASSETS_DIR \o UrlPathname(http.target)
    /\ InsideDir(http.path, ASSETS_DIR)
    /\ http.path \notin OutsideFiles
    /\ http.status = IF IsFile(files, http.path) THEN "200" ELSE "404"

\* a target that names a file outside the assets directory was answered with
\* the file its path names once the dot segments are removed
TraversalServedFromInside ==
  /\ http.ep = "static"
  /\ ~InsideDir(RequestedPath(http.target), ASSETS_DIR)
  /\ http.status = "200"
====
